---- MODULE Spec2Model ----
(***************************************************************************)
(* tsh (online.c): the job table, the launcher and the bg/fg built-ins of  *)
(* eval, and the SIGCHLD / SIGINT / SIGTSTP handlers that preempt eval.    *)
(*                                                                         *)
(* The control thread (main's read/eval loop) runs only while no handler   *)
(* is on the handler stack; a handler is delivered when its signal is      *)
(* pending, not blocked by the launch mask and not already being handled   *)
(* (Signal installs every handler with an empty sa_mask, so handlers of    *)
(* different signals nest).  Children are tracked at the OS level by proc. *)
(***************************************************************************)
EXTENDS Integers, FiniteSets, Sequences, TLC

(* ------------------------------ bounds --------------------------------- *)
\* MAXJOBS is 16 in online.c:21; the model runs the same code on a smaller table.
MAXJOBS == 4
\* number of fork() calls in one run of Spec (SpecWide forks one more);
\* fork hands out the pids 1, 2, ... in order
MaxPid == 2

(* --------------------------- program constants ------------------------- *)
UNDEF == 0
FG == 1
BG == 2
ST == 3

\* a NULL struct job_t *
NULL == -1

Slots == 0 .. (MAXJOBS - 1)
\* pids of every specification of this module (SpecFull forks MAXJOBS + 1 children)
Pids == 1 .. (MAXJOBS + 1)

VARIABLES
  job_list,   \* struct job_t job_list[MAXJOBS]: slot -> [pid, jid, state]
  nextjid,    \* int nextjid
  pc,         \* the statement of main/eval the control thread is at
  pid,        \* eval's local pid (BUILTIN_NONE branch), 0 when not launching
  bg,         \* eval's local bg, the result of parseline
  jid,        \* eval's local jid (BUILTIN_NONE branch)
  stjob,      \* eval's local stjob (BUILTIN_BG / BUILTIN_FG): a slot or NULL
  blocked,    \* the shell's signal mask
  pending,    \* signals pending for the shell
  hstack,     \* the handlers in progress, innermost last
  proc,       \* OS state of each child pid
  nextpid,    \* the pid the next fork() returns
  shell,      \* "running", or how the shell process ended
  unreg,      \* pids of children whose addjob failed (history)
  lastjid     \* jid given by the last successful addjob since the last
              \* successful deletejob, 0 when there is none (history)

vars == <<job_list, nextjid, pc, pid, bg, jid, stjob, blocked, pending,
          hstack, proc, nextpid, shell, unreg, lastjid>>

(* ------------------------------ job table ------------------------------ *)
Min(S) == CHOOSE x \in S : \A y \in S : x <= y
Max(S) == CHOOSE x \in S : \A y \in S : x >= y

clearjob == [pid |-> 0, jid |-> 0, state |-> UNDEF]

initjobs == [i \in Slots |-> clearjob]

maxjid(jl) == Max({0} \cup {jl[i].jid : i \in Slots})

\* the slot loop without its test for a free slot
addjob_slot_nofreetest(jl, p) == IF p < 1 THEN NULL ELSE 0

addjob_slot_anypid(jl, p) ==
  IF {i \in Slots : jl[i].pid = 0} = {} THEN NULL
  ELSE Min({i \in Slots : jl[i].pid = 0})

\* the slot addjob's loop stops at, NULL when the loop falls through
addjob_slot(jl, p) ==
  IF p < 1 \/ {i \in Slots : jl[i].pid = 0} = {} THEN NULL
  ELSE Min({i \in Slots : jl[i].pid = 0})

addjob_wrap(nj) == IF nj > MAXJOBS THEN 1 ELSE nj

\* addjob: <<return value, job_list, nextjid>>
addjob(jl, nj, p, state) ==
  LET s == addjob_slot(jl, p) IN
  IF s = NULL THEN <<0, jl, nj>>
  ELSE <<1, [jl EXCEPT ![s] = [pid |-> p, jid |-> nj, state |-> state]],
         addjob_wrap(nj + 1)>>

\* deletejob: <<return value, job_list, nextjid>>
deletejob(jl, nj, p) ==
  IF p < 1 \/ {i \in Slots : jl[i].pid = p} = {} THEN <<0, jl, nj>>
  ELSE LET s == Min({i \in Slots : jl[i].pid = p})
           cleared == [jl EXCEPT ![s] = clearjob]
       IN <<1, cleared, maxjid(cleared) + 1>>

\* the word listjobs prints for a job's state
listjobs_state(state) ==
  CASE state = BG -> "Running"
    [] state = FG -> "Foreground"
    [] state = ST -> "Stopped"
    [] OTHER -> "listjobs: Internal error"

\* a test for "not UNDEF" in place of "FG"
fgpid_anyjob(jl) ==
  IF {i \in Slots : jl[i].state # UNDEF} = {} THEN 0
  ELSE jl[Min({i \in Slots : jl[i].state # UNDEF})].pid

fgpid(jl) ==
  IF {i \in Slots : jl[i].state = FG} = {} THEN 0
  ELSE jl[Min({i \in Slots : jl[i].state = FG})].pid

getjobpid(jl, p) ==
  IF p < 1 \/ {i \in Slots : jl[i].pid = p} = {} THEN NULL
  ELSE Min({i \in Slots : jl[i].pid = p})

getjobjid(jl, j) ==
  IF j < 1 \/ {i \in Slots : jl[i].jid = j} = {} THEN NULL
  ELSE Min({i \in Slots : jl[i].jid = j})

pid2jid(jl, p) ==
  IF getjobpid(jl, p) = NULL THEN 0 ELSE jl[getjobpid(jl, p)].jid

Live(jl) == {i \in Slots : jl[i].pid # 0}

(* ------------------------------ OS layer ------------------------------- *)
\* proc[p]: "none"   not forked yet, or reaped by waitpid
\*          "pre"    forked, still in the shell's process group (before setpgid)
\*          "run"    in its own group, running the program
\*          "stopU"  stopped, the stop not yet reported by waitpid
\*          "stop"   stopped, the stop reported
\*          "zombie" terminated, not yet reaped
ProcStates == {"none", "pre", "loop", "run", "stopU", "stop", "zombie"}

\* kill(-p, sig) finds a process group p
GroupExists(p) == p \in Pids /\ proc[p] \in {"run", "stopU", "stop", "zombie"}

\* the effect of a signal with its default disposition on child p
Signalled(p, sig) ==
  CASE sig = "INT"  /\ proc[p] = "run" -> "zombie"
    [] sig = "TSTP" /\ proc[p] = "run" -> "stopU"
    [] sig = "CONT" /\ proc[p] \in {"stopU", "stop"} -> "run"
    [] OTHER -> proc[p]

KillGroup_nothing(p, sig) == UNCHANGED <<proc, pending>>

\* kill(-p, sig) for an existing group: the child changes state and the
\* kernel posts SIGCHLD to the shell when it does
KillGroup(p, sig) ==
  /\ proc' = [proc EXCEPT ![p] = Signalled(p, sig)]
  /\ pending' = IF Signalled(p, sig) # proc[p] THEN pending \cup {"CHLD"} ELSE pending

\* children waitpid(-1, &status, WNOHANG | WUNTRACED) can report
Reportable(pr) == {p \in Pids : pr[p] \in {"stopU", "zombie"}}

Statuses(pr, p) == IF pr[p] = "zombie" THEN {"exited", "signaled"} ELSE {"stopped"}

Reaped(pr, p) == [pr EXCEPT ![p] = IF pr[p] = "zombie" THEN "none" ELSE "stop"]

(* --------------------------- handler stack ----------------------------- *)
Top == hstack[Len(hstack)]
Pop == SubSeq(hstack, 1, Len(hstack) - 1)
Handling(sig) == \E i \in DOMAIN hstack : hstack[i].h = sig

Deliverable(sig) ==
  /\ shell = "running"
  /\ sig \in pending
  /\ sig \notin blocked
  /\ ~Handling(sig)

\* the control thread executes a statement
Control == shell = "running" /\ hstack = <<>>

(* ------------------------------- eval ---------------------------------- *)
\* a launch mask that leaves SIGCHLD out
LaunchMaskNoChld == {"INT", "TSTP"}

\* the mask eval blocks around fork and addjob
LaunchMask == {"CHLD", "INT", "TSTP"}

Init ==
  /\ job_list = initjobs
  /\ nextjid = 1
  /\ pc = "prompt"
  /\ pid = 0
  /\ bg = 0
  /\ jid = 0
  /\ stjob = NULL
  /\ blocked = {}
  /\ pending = {}
  /\ hstack = <<>>
  /\ proc = [p \in Pids |-> "none"]
  /\ nextpid = 1
  /\ shell = "running"
  /\ unreg = {}
  /\ lastjid = 0

\* BUILTIN_NONE: sigprocmask(SIG_BLOCK) and fork(), in the parent
EvalFork(b, maxpid) ==
  /\ Control /\ pc = "prompt"
  /\ nextpid <= maxpid
  /\ blocked' = blocked \cup LaunchMask
  /\ pid' = nextpid
  /\ nextpid' = nextpid + 1
  /\ proc' = [proc EXCEPT ![nextpid] = "pre"]
  /\ bg' = b
  /\ pc' = "addjob"
  /\ UNCHANGED <<job_list, nextjid, jid, stjob, pending, hstack, shell, unreg, lastjid>>

\* addjob(job_list, pid, bg + 1, cmdline)
EvalAddjob ==
  /\ Control /\ pc = "addjob"
  /\ LET r == addjob(job_list, nextjid, pid, bg + 1) IN
       /\ job_list' = r[2]
       /\ nextjid' = r[3]
       /\ unreg' = IF r[1] = 0 THEN unreg \cup {pid} ELSE unreg
       /\ lastjid' = IF r[1] = 1 THEN nextjid ELSE lastjid
  /\ pc' = "unblock"
  /\ UNCHANGED <<pid, bg, jid, stjob, blocked, pending, hstack, proc, nextpid, shell>>

\* sigprocmask(SIG_UNBLOCK, &mask, NULL)
EvalUnblock ==
  /\ Control /\ pc = "unblock"
  /\ blocked' = blocked \ LaunchMask
  /\ pc' = "pid2jid"
  /\ UNCHANGED <<job_list, nextjid, pid, bg, jid, stjob, pending, hstack, proc,
                 nextpid, shell, unreg, lastjid>>

\* jid = pid2jid(pid)
EvalPid2jid ==
  /\ Control /\ pc = "pid2jid"
  /\ jid' = pid2jid(job_list, pid)
  /\ pc' = IF bg = 0 THEN "fgwait" ELSE "ack"
  /\ UNCHANGED <<job_list, nextjid, pid, bg, stjob, blocked, pending, hstack, proc,
                 nextpid, shell, unreg, lastjid>>

\* fprintf(stdout, "[%d] (%d) %s\n", jid, pid, cmdline) and the return to main
EvalAck ==
  /\ Control /\ pc = "ack"
  /\ pc' = "prompt" /\ pid' = 0 /\ bg' = 0 /\ jid' = 0
  /\ UNCHANGED <<job_list, nextjid, stjob, blocked, pending, hstack, proc,
                 nextpid, shell, unreg, lastjid>>

\* while(fgpid(job_list) != 0) ; -- the iteration that leaves the loop
EvalFgWait ==
  /\ Control /\ pc = "fgwait"
  /\ fgpid(job_list) = 0
  /\ pc' = "prompt" /\ pid' = 0 /\ bg' = 0 /\ jid' = 0 /\ stjob' = NULL
  /\ UNCHANGED <<job_list, nextjid, blocked, pending, hstack, proc, nextpid,
                 shell, unreg, lastjid>>

\* BUILTIN_BG / BUILTIN_FG: argv[1] is "%n" (byjid) or "n"; atoi and the lookup.
\* A NULL result prints "No Such Job" and eval goes on to the state test.
EvalResolve(cmd, byjid, n) ==
  /\ Control /\ pc = "prompt"
  /\ stjob' = IF byjid THEN getjobjid(job_list, n) ELSE getjobpid(job_list, n)
  /\ pc' = IF cmd = "bg" THEN "bg_check" ELSE "fg_check"
  /\ UNCHANGED <<job_list, nextjid, pid, bg, jid, blocked, pending, hstack, proc,
                 nextpid, shell, unreg, lastjid>>

EvalCheck_inverted ==
  /\ Control /\ pc \in {"bg_check", "fg_check"} /\ stjob # NULL
  /\ IF job_list[stjob].state = ST
       THEN pc' = "prompt" /\ stjob' = NULL
       ELSE pc' = (IF pc = "bg_check" THEN "bg_kill" ELSE "fg_kill") /\ stjob' = stjob
  /\ UNCHANGED <<job_list, nextjid, pid, bg, jid, blocked, pending, hstack, proc,
                 nextpid, shell, unreg, lastjid>>

\* if(stjob->state != ST) { "... is running now"; return; }
EvalCheck ==
  /\ Control /\ pc \in {"bg_check", "fg_check"} /\ stjob # NULL
  /\ IF job_list[stjob].state # ST
       THEN pc' = "prompt" /\ stjob' = NULL
       ELSE pc' = (IF pc = "bg_check" THEN "bg_kill" ELSE "fg_kill") /\ stjob' = stjob
  /\ UNCHANGED <<job_list, nextjid, pid, bg, jid, blocked, pending, hstack, proc,
                 nextpid, shell, unreg, lastjid>>

\* stjob->state with stjob == NULL is undefined: the read faults (SIGSEGV
\* ends the shell), or it yields some value, equal to ST or not
EvalCheckNull ==
  /\ Control /\ pc \in {"bg_check", "fg_check"} /\ stjob = NULL
  /\ \/ shell' = "segv" /\ pc' = pc
     \/ shell' = shell /\ pc' = "prompt"
     \/ shell' = shell /\ pc' = (IF pc = "bg_check" THEN "bg_kill" ELSE "fg_kill")
  /\ UNCHANGED <<job_list, nextjid, pid, bg, jid, stjob, blocked, pending, hstack,
                 proc, nextpid, unreg, lastjid>>

\* kill(-(stjob->pid), SIGCONT), its result ignored. stjob->pid is read now:
\* 0 when the slot was cleared meanwhile, and kill(0, SIGCONT) signals the
\* shell's own group, where nothing is stopped.
EvalKill ==
  /\ Control /\ pc \in {"bg_kill", "fg_kill"} /\ stjob # NULL
  /\ IF GroupExists(job_list[stjob].pid)
       THEN KillGroup(job_list[stjob].pid, "CONT")
       ELSE UNCHANGED <<proc, pending>>
  /\ pc' = IF pc = "bg_kill" THEN "bg_set" ELSE "fg_set"
  /\ UNCHANGED <<job_list, nextjid, pid, bg, jid, stjob, blocked, hstack, nextpid,
                 shell, unreg, lastjid>>

\* the same statement after the undefined read went through: the target is
\* whatever the read of stjob->pid yields, or the read faults
EvalKillNull ==
  /\ Control /\ pc \in {"bg_kill", "fg_kill"} /\ stjob = NULL
  /\ \/ shell' = "segv" /\ pc' = pc /\ UNCHANGED <<proc, pending>>
     \/ /\ shell' = shell
        /\ pc' = (IF pc = "bg_kill" THEN "bg_set" ELSE "fg_set")
        /\ \E g \in {0} \cup Pids :
             IF GroupExists(g) THEN KillGroup(g, "CONT") ELSE UNCHANGED <<proc, pending>>
  /\ UNCHANGED <<job_list, nextjid, pid, bg, jid, stjob, blocked, hstack, nextpid,
                 unreg, lastjid>>

\* stjob->state = BG; / stjob->state = FG;
EvalSet ==
  /\ Control /\ pc \in {"bg_set", "fg_set"} /\ stjob # NULL
  /\ job_list' = [job_list EXCEPT ![stjob].state = IF pc = "bg_set" THEN BG ELSE FG]
  /\ IF pc = "bg_set" THEN pc' = "prompt" /\ stjob' = NULL
                      ELSE pc' = "fgwait" /\ stjob' = stjob
  /\ UNCHANGED <<nextjid, pid, bg, jid, blocked, pending, hstack, proc, nextpid,
                 shell, unreg, lastjid>>

\* the write through NULL faults
EvalSetNull ==
  /\ Control /\ pc \in {"bg_set", "fg_set"} /\ stjob = NULL
  /\ shell' = "segv"
  /\ UNCHANGED <<job_list, nextjid, pc, pid, bg, jid, stjob, blocked, pending,
                 hstack, proc, nextpid, unreg, lastjid>>

(* --------------------------- sigchld_handler --------------------------- *)
\* an if in place of the while: no waitpid call after the first loop body
Waitpid_once(hs) ==
  IF Reportable(proc) = {} \/ hs # hstack
    THEN hstack' = hs /\ proc' = proc
    ELSE \E p \in Reportable(proc) : \E st \in Statuses(proc, p) :
           /\ hstack' = Append(hs, [h |-> "CHLD", wpid |-> p, st |-> st])
           /\ proc' = Reaped(proc, p)

\* wpid = waitpid(-1, &child_status, WNOHANG | WUNTRACED) with the handler
\* stack below it hs: a child is reported and its frame pushed, or none is
\* available and the handler returns
Waitpid(hs) ==
  IF Reportable(proc) = {}
    THEN hstack' = hs /\ proc' = proc
    ELSE \E p \in Reportable(proc) : \E st \in Statuses(proc, p) :
           /\ hstack' = Append(hs, [h |-> "CHLD", wpid |-> p, st |-> st])
           /\ proc' = Reaped(proc, p)

\* SIGCHLD is delivered: the handler starts and makes its first waitpid call
SigchldEnter ==
  /\ Deliverable("CHLD")
  /\ pending' = pending \ {"CHLD"}
  /\ Waitpid(hstack)
  /\ UNCHANGED <<job_list, nextjid, pc, pid, bg, jid, stjob, blocked, nextpid,
                 shell, unreg, lastjid>>

\* a loop body whose WIFSIGNALED branch reports and forgets deletejob
sigchld_body_nodelete(jl, nj, wpid, st) ==
  IF st = "stopped"
    THEN <<[jl EXCEPT ![getjobpid(jl, wpid)].state = ST], nj>>
    ELSE IF st = "signaled" THEN <<jl, nj>>
    ELSE <<deletejob(jl, nj, wpid)[2], deletejob(jl, nj, wpid)[3]>>

\* the body of the while loop for the reported child:
\* <<job_list, nextjid>> after it
sigchld_body(jl, nj, wpid, st) ==
  IF st = "stopped"
    THEN <<[jl EXCEPT ![getjobpid(jl, wpid)].state = ST], nj>>
    ELSE <<deletejob(jl, nj, wpid)[2], deletejob(jl, nj, wpid)[3]>>

\* one iteration of the loop, then the next waitpid call; with job == NULL the
\* iteration is app_error("sigchld getjobpid error"), which exits the shell
SigchldStep ==
  /\ shell = "running" /\ hstack # <<>> /\ Top.h = "CHLD"
  /\ IF getjobpid(job_list, Top.wpid) = NULL
       THEN /\ shell' = "app_error"
            /\ UNCHANGED <<job_list, nextjid, hstack, proc, lastjid>>
       ELSE /\ job_list' = sigchld_body(job_list, nextjid, Top.wpid, Top.st)[1]
            /\ nextjid' = sigchld_body(job_list, nextjid, Top.wpid, Top.st)[2]
            /\ lastjid' = IF Top.st = "stopped" THEN lastjid ELSE 0
            /\ Waitpid(Pop)
            /\ shell' = shell
  /\ UNCHANGED <<pc, pid, bg, jid, stjob, blocked, pending, nextpid, unreg>>

(* ------------------- sigint_handler / sigtstp_handler ------------------ *)
\* the signal is delivered and the handler reads fid = fgpid(job_list);
\* fid == 0 returns at once
ForwarderEnter(sig) ==
  /\ Deliverable(sig)
  /\ pending' = pending \ {sig}
  /\ hstack' = IF fgpid(job_list) = 0 THEN hstack
               ELSE Append(hstack, [h |-> sig, wpid |-> fgpid(job_list), st |-> "fid"])
  /\ UNCHANGED <<job_list, nextjid, pc, pid, bg, jid, stjob, blocked, proc, nextpid,
                 shell, unreg, lastjid>>

\* kill(-fid, sig); -1 (no such group) is unix_error, which exits the shell
ForwarderSend ==
  /\ shell = "running" /\ hstack # <<>> /\ Top.h \in {"INT", "TSTP"}
  /\ IF GroupExists(Top.wpid)
       THEN KillGroup(Top.wpid, Top.h) /\ hstack' = Pop /\ shell' = shell
       ELSE shell' = "unix_error" /\ UNCHANGED <<proc, pending, hstack>>
  /\ UNCHANGED <<job_list, nextjid, pc, pid, bg, jid, stjob, blocked, nextpid, unreg, lastjid>>

(* ----------------------------- environment ----------------------------- *)
\* ctrl-c / ctrl-z: SIGINT / SIGTSTP is sent to the shell
Keyboard(sig) ==
  /\ shell = "running"
  /\ sig \notin pending
  /\ pending' = pending \cup {sig}
  /\ UNCHANGED <<job_list, nextjid, pc, pid, bg, jid, stjob, blocked, hstack, proc,
                 nextpid, shell, unreg, lastjid>>

\* the child: setpgid(0, 0), unblock, default handlers, execve
ChildSetpgid(p) ==
  /\ shell = "running" /\ proc[p] = "pre"
  /\ proc' = [proc EXCEPT ![p] = "run"]
  /\ UNCHANGED <<job_list, nextjid, pc, pid, bg, jid, stjob, blocked, pending,
                 hstack, nextpid, shell, unreg, lastjid>>

\* the program exits (also: execve fails and the child calls exit), or a
\* signal from elsewhere terminates it
ChildExit(p) ==
  /\ shell = "running" /\ proc[p] \in {"run", "stopU", "stop"}
  /\ proc' = [proc EXCEPT ![p] = "zombie"]
  /\ pending' = pending \cup {"CHLD"}
  /\ UNCHANGED <<job_list, nextjid, pc, pid, bg, jid, stjob, blocked, hstack,
                 nextpid, shell, unreg, lastjid>>

\* the program is stopped by a signal the shell did not send (SIGTTIN, SIGSTOP)
ChildStop(p) ==
  /\ shell = "running" /\ proc[p] = "run"
  /\ proc' = [proc EXCEPT ![p] = "stopU"]
  /\ pending' = pending \cup {"CHLD"}
  /\ UNCHANGED <<job_list, nextjid, pc, pid, bg, jid, stjob, blocked, hstack,
                 nextpid, shell, unreg, lastjid>>

\* the child of a command with "< infile" or "> outfile": open or dup2 fails,
\* the child prints the error and returns from eval into main's read/eval
\* loop, still in the shell's process group and with the launch mask blocked
ChildOpenFails(p) ==
  /\ shell = "running" /\ proc[p] = "pre"
  /\ proc' = [proc EXCEPT ![p] = "loop"]
  /\ UNCHANGED <<job_list, nextjid, pc, pid, bg, jid, stjob, blocked, pending,
                 hstack, nextpid, shell, unreg, lastjid>>

\* the child in the read/eval loop reaches end of input (or reads "quit")
\* and exits
ChildLoopExit(p) ==
  /\ shell = "running" /\ proc[p] = "loop"
  /\ proc' = [proc EXCEPT ![p] = "zombie"]
  /\ pending' = pending \cup {"CHLD"}
  /\ UNCHANGED <<job_list, nextjid, pc, pid, bg, jid, stjob, blocked, hstack,
                 nextpid, shell, unreg, lastjid>>

\* argv[1] of bg and fg
ArgVals == 0 .. (MAXJOBS + 1)

\* every step of the shell, its children and the keyboard, with at most
\* maxpid calls of fork
Step(maxpid) ==
  \/ \E b \in {0, 1} : EvalFork(b, maxpid)
  \/ EvalAddjob
  \/ EvalUnblock
  \/ EvalPid2jid
  \/ EvalAck
  \/ EvalFgWait
  \/ \E cmd \in {"bg", "fg"}, byjid \in BOOLEAN, n \in ArgVals : EvalResolve(cmd, byjid, n)
  \/ EvalCheck
  \/ EvalCheckNull
  \/ EvalKill
  \/ EvalKillNull
  \/ EvalSet
  \/ EvalSetNull
  \/ SigchldEnter
  \/ SigchldStep
  \/ \E sig \in {"INT", "TSTP"} : ForwarderEnter(sig)
  \/ ForwarderSend
  \/ \E sig \in {"INT", "TSTP"} : Keyboard(sig)
  \/ \E p \in Pids : ChildSetpgid(p) \/ ChildExit(p) \/ ChildStop(p)

Next == Step(MaxPid)

Spec == Init /\ [][Next]_vars

\* the same shell with one more fork
NextWide == Step(MaxPid + 1)

SpecWide == Init /\ [][NextWide]_vars

\* the shell whose command lines may redirect input or output to a path the
\* child cannot open
NextIO ==
  \/ Step(MaxPid)
  \/ \E p \in Pids : ChildOpenFails(p) \/ ChildLoopExit(p)

SpecIO == Init /\ [][NextIO]_vars

\* the shell given only background launches ("prog &"), MAXJOBS + 1 of them,
\* whose children run and exit: the runs that fill the job table
NextFull ==
  \/ EvalFork(1, MAXJOBS + 1)
  \/ EvalAddjob
  \/ EvalUnblock
  \/ EvalPid2jid
  \/ EvalAck
  \/ SigchldEnter
  \/ SigchldStep
  \/ \E p \in Pids : ChildSetpgid(p) \/ ChildExit(p)

SpecFull == Init /\ [][NextFull]_vars

\* the job table alone, under any sequence of addjob and deletejob calls.
\* A call of addjob is given pid 0 or, as after fork, the next pid.
MaxAdds == 6

JobsAdd(p, b) ==
  /\ nextpid <= MaxAdds
  /\ job_list' = addjob(job_list, nextjid, p, b + 1)[2]
  /\ nextjid' = addjob(job_list, nextjid, p, b + 1)[3]
  /\ nextpid' = IF p = nextpid THEN nextpid + 1 ELSE nextpid
  /\ lastjid' = IF addjob(job_list, nextjid, p, b + 1)[1] = 1 THEN nextjid ELSE lastjid
  /\ UNCHANGED <<pc, pid, bg, jid, stjob, blocked, pending, hstack, proc, shell, unreg>>

JobsDelete(p) ==
  /\ job_list' = deletejob(job_list, nextjid, p)[2]
  /\ nextjid' = deletejob(job_list, nextjid, p)[3]
  /\ lastjid' = IF deletejob(job_list, nextjid, p)[1] = 1 THEN 0 ELSE lastjid
  /\ UNCHANGED <<pc, pid, bg, jid, stjob, blocked, pending, hstack, proc, nextpid,
                 shell, unreg>>

NextJobs ==
  \/ \E p \in {0, nextpid}, b \in {0, 1} : JobsAdd(p, b)
  \/ \E p \in 0 .. MaxAdds : JobsDelete(p)

SpecJobs == Init /\ [][NextJobs]_vars

\* Scheduling: the kernel delivers every pending unblocked signal, and a
\* handler or the control thread that can run does run, however often it is
\* preempted. Nothing is assumed of the user or of the children.
ControlStep ==
  \/ EvalAddjob \/ EvalUnblock \/ EvalPid2jid \/ EvalAck \/ EvalFgWait
  \/ EvalCheck \/ EvalCheckNull \/ EvalKill \/ EvalKillNull \/ EvalSet \/ EvalSetNull

FairSpec ==
  /\ Spec
  /\ WF_vars(SigchldEnter)
  /\ \A sig \in {"INT", "TSTP"} : WF_vars(ForwarderEnter(sig))
  /\ SF_vars(SigchldStep)
  /\ SF_vars(ForwarderSend)
  /\ SF_vars(ControlStep)

(* ------------------------------- claims -------------------------------- *)
LiveFg == {i \in Live(job_list) : job_list[i].state = FG}

\* C1: in every reachable state at most one live job-table entry (pid != 0)
\* has state FG.
C1_AtMostOneForeground == Cardinality(LiveFg) <= 1

\* C2: in every reachable state the jids of the live job-table entries are
\* pairwise distinct, whatever sequence of addjob and deletejob calls led there.
C2_UniqueJids ==
  \A i \in Live(job_list), j \in Live(job_list) :
    i # j => job_list[i].jid # job_list[j].jid

\* C3: a launch into a full table is never fatal: once a child's addjob has
\* failed, the shell does not exit through app_error, neither at the launch
\* nor when the reaper is later notified of that child.
C3_TableFullNotFatal == unreg # {} => shell # "app_error"

\* C4: no handler runs in the shell between fork and the unblocking of the
\* launch mask, and every child whose state change the reaper is processing
\* has been through addjob: it is in the table unless its addjob failed.
C4_ReapAfterRegistration ==
  /\ pc \in {"addjob", "unblock"} => hstack = <<>>
  /\ \A k \in DOMAIN hstack :
       hstack[k].h = "CHLD" =>
         \/ getjobpid(job_list, hstack[k].wpid) # NULL
         \/ hstack[k].wpid \in unreg

\* the child of the launch in progress has changed state already and the
\* reaper, run after the unblocking, is processing it with the job in the table
C4_Witness ==
  /\ pc = "pid2jid"
  /\ hstack # <<>> /\ Top.h = "CHLD" /\ Top.wpid = pid
  /\ getjobpid(job_list, pid) # NULL

\* C5: bg or fg with an argument that matches no live job (stjob == NULL)
\* sends no signal, leaves the job table unchanged and returns to the prompt
\* with the shell running.
C5_NoSuchJobRecoverable ==
  [][(/\ Control /\ pc \in {"bg_check", "fg_check"} /\ stjob = NULL
      /\ (pc' # pc \/ shell' # shell))
     => (/\ pc' = "prompt" /\ shell' = "running"
         /\ job_list' = job_list /\ proc' = proc)]_vars

\* C6: the control thread is back at the prompt only when no live job is
\* both recorded FG and still running: after a foreground launch or fg it
\* does not read the next command line before the job has exited, been
\* killed or stopped.
C6_NoPromptWhileForegroundRuns ==
  pc = "prompt" =>
    \A i \in LiveFg : proc[job_list[i].pid] \notin {"pre", "run"}

\* the control thread is in the wait loop and the process of the job
\* recorded FG has exited, been killed or stopped
WaitingOnFinished ==
  /\ shell = "running" /\ pc = "fgwait"
  /\ \E i \in LiveFg : proc[job_list[i].pid] \in {"none", "zombie", "stopU", "stop"}

\* C7: whenever the control thread waits on a foreground job whose process
\* has exited, been killed or stopped, it eventually leaves the wait and is
\* back at the prompt (signals being delivered and handlers scheduled).
C7_WaitEnds == WaitingOnFinished ~> (shell = "running" /\ pc = "prompt")

\* the exit notifications of registered children the reaper is processing
ExitFrames ==
  {k \in DOMAIN hstack :
     hstack[k].h = "CHLD" /\ hstack[k].st # "stopped" /\ hstack[k].wpid \notin unreg}

\* SigchldStep is taken for the exit of a registered child
ReapsExit ==
  /\ hstack # <<>> /\ Len(hstack) \in ExitFrames
  /\ hstack' # hstack /\ Len(hstack') <= Len(hstack)

\* C8: a registered child that exited or was killed is removed by the reaper
\* exactly once: the iteration that processes its notification finds exactly
\* one entry with its pid and leaves none, changing no other entry; and an
\* entry whose process has been reaped exists only while that iteration is
\* still to run (no leak).
C8_ReapedOnce ==
  /\ [](\A k \in ExitFrames :
          Cardinality({i \in Slots : job_list[i].pid = hstack[k].wpid}) = 1)
  /\ [](\A i \in Live(job_list) :
          proc[job_list[i].pid] = "none" =>
            \E k \in ExitFrames : hstack[k].wpid = job_list[i].pid)
  /\ [][ReapsExit =>
          /\ \A i \in Slots : job_list'[i].pid # Top.wpid
          /\ \A i \in Slots : job_list[i].pid # Top.wpid => job_list'[i] = job_list[i]]_vars

\* a registered child has exited, has been reaped and removed, and the
\* handler has returned
C8_Witness ==
  /\ hstack = <<>> /\ pc = "prompt"
  /\ \E p \in Pids : p < nextpid /\ proc[p] = "none" /\ getjobpid(job_list, p) = NULL

\* C9: whenever a forwarder is about to send (kill(-fid, sig) is its next
\* statement), fid is the pid of a live entry with state FG.
C9_ForwardToForegroundJob ==
  (hstack # <<>> /\ Top.h \in {"INT", "TSTP"}) =>
    \E i \in LiveFg : job_list[i].pid = Top.wpid

\* C10: once the launch mask is unblocked, every live entry of an unreaped
\* child names an existing process group: the child has done setpgid.
C10_OwnGroupOnceSignalable ==
  blocked = {} =>
    \A i \in Live(job_list) :
      proc[job_list[i].pid] # "none" => GroupExists(job_list[i].pid)

\* addjob has just registered a job
Added == Cardinality(Live(job_list')) > Cardinality(Live(job_list))

\* C11: between two consecutive removals, and before the first, the jids
\* given by successive successful adds are strictly increasing (the number of
\* live jobs never exceeds MAXJOBS in any run).
C11_JidsIncrease == [][Added => lastjid' > lastjid]_vars

\* C12: a child whose redirection path cannot be opened reports the error and
\* terminates without running the program and without executing further
\* shell logic: no child ever runs the shell's read/eval loop.
C12_ChildNeverInShellLoop == \A p \in Pids : proc[p] # "loop"

\* addjob is called: by eval after fork, or on the table alone
AddCalled ==
  \/ pc = "addjob" /\ pc' = "unblock"
  \/ pc = "prompt" /\ pc' = "prompt" /\ nextpid' # nextpid

\* C13: addjob on a full table returns failure and leaves every slot and
\* nextjid unchanged, so the live entries never exceed MAXJOBS; addjob with a
\* pid below 1 is rejected with the table unchanged.
C13_CapacityBound ==
  /\ [][(AddCalled /\ Live(job_list) = Slots)
          => (job_list' = job_list /\ nextjid' = nextjid)]_vars
  /\ [](Cardinality(Live(job_list)) <= MAXJOBS)
  /\ [](\A p \in -1 .. (MAXJOBS + 1), st \in {FG, BG, ST} :
          (p < 1 \/ Live(job_list) = Slots)
            => addjob(job_list, nextjid, p, st) = <<0, job_list, nextjid>>)

\* the table holds the first MAXJOBS children and one more add was called
C13_Witness ==
  /\ {job_list[i].pid : i \in Slots} = 1 .. MAXJOBS
  /\ nextpid = MAXJOBS + 2

\* C14: bg on a Stopped job sends SIGCONT to that job's process group (a
\* stopped process of a job still in the table runs again, nothing else is
\* signalled), and when bg completes the job, if still live, is recorded BG
\* and listed "Running"; no other entry's pid, jid or state changes.
C14_BgResumes ==
  /\ [][(Control /\ pc = "bg_kill" /\ stjob # NULL /\ pc' # pc)
          => /\ \A p \in Pids :
                  proc'[p] = IF /\ p = job_list[stjob].pid
                                /\ proc[p] \in {"stopU", "stop"}
                             THEN "run" ELSE proc[p]
             /\ job_list' = job_list /\ nextjid' = nextjid]_vars
  /\ [][(Control /\ pc = "bg_set" /\ stjob # NULL /\ pc' # pc)
          => /\ pc' = "prompt"
             /\ stjob \in Live(job_list')
                  => listjobs_state(job_list'[stjob].state) = "Running"
             /\ job_list'[stjob].pid = job_list[stjob].pid
             /\ job_list'[stjob].jid = job_list[stjob].jid
             /\ \A i \in Slots \ {stjob} : job_list'[i] = job_list[i]
             /\ nextjid' = nextjid /\ proc' = proc]_vars

\* bg has continued a stopped job and is about to record it
C14_Witness ==
  /\ pc = "bg_set" /\ stjob # NULL /\ stjob \in Live(job_list)
  /\ job_list[stjob].state = ST
  /\ proc[job_list[stjob].pid] = "run"

C16_AckCarriesJid ==
  (pc = "ack" /\ pid \notin unreg)
    => /\ jid >= 1
       /\ \A i \in Live(job_list) : job_list[i].pid = pid => job_list[i].jid = jid

\* sigchld_handler runs a loop body and calls waitpid again
ReaperLoops ==
  /\ hstack # <<>> /\ Top.h = "CHLD"
  /\ hstack' # hstack /\ Len(hstack') <= Len(hstack)

\* sigchld_handler makes a waitpid call: its first, or the one after a loop body
ReaperWaits ==
  \/ "CHLD" \in pending /\ "CHLD" \notin pending'
  \/ ReaperLoops

\* that call finds no child and the handler returns
ReaperReturns == ReaperWaits /\ ~Handling("CHLD")'

\* C17: one run of sigchld_handler drains every available child state
\* change, applying each to the table, and returns as soon as waitpid has
\* none to report, never waiting for a running child; no change is lost when
\* several children change state under one SIGCHLD.
C17_ReaperDrains ==
  /\ [][ReaperReturns => Reportable(proc') = {}]_vars
  /\ [][(ReaperWaits /\ Reportable(proc) = {}) => ReaperReturns]_vars
  /\ [][(ReaperLoops /\ Top.st = "stopped")
          => \E i \in Slots : /\ job_list[i].pid = Top.wpid
                              /\ job_list'[i].pid = Top.wpid
                              /\ job_list'[i].state = ST]_vars
  /\ [](Reportable(proc) # {} => ("CHLD" \in pending \/ Handling("CHLD")))

\* the handler is at one child's loop body while another child's change,
\* notified by the same SIGCHLD, is still to be collected
C17_Witness ==
  /\ shell = "running" /\ hstack # <<>> /\ Top.h = "CHLD"
  /\ Reportable(proc) # {}
  /\ "CHLD" \notin pending

\* sigint_handler or sigtstp_handler starts and queries fgpid
ForwarderQueries == \E sig \in {"INT", "TSTP"} : sig \in pending /\ sig \notin pending'

\* the handler passes its kill statement
ForwarderKills ==
  /\ hstack # <<>> /\ Top.h \in {"INT", "TSTP"}
  /\ hstack' = Pop \/ shell' # shell

\* C18: sigint_handler and sigtstp_handler leave job_list and nextjid
\* unchanged; a job's state becomes ST only in sigchld_handler's loop body
\* for a child waitpid reported as stopped; a forwarder that finds no
\* foreground job sends no signal.
C18_ForwardersFrame ==
  /\ [][(ForwarderQueries \/ ForwarderKills)
          => (job_list' = job_list /\ nextjid' = nextjid)]_vars
  /\ [][\A i \in Slots :
          (job_list'[i].state = ST /\ job_list[i].state # ST)
            => /\ ReaperLoops /\ Top.st = "stopped"
               /\ Top.wpid = job_list[i].pid]_vars
  /\ [][(ForwarderQueries /\ LiveFg = {})
          => (hstack' = hstack /\ proc' = proc /\ shell' = shell)]_vars

\* the reaper has recorded a stop, no job is foreground and ctrl-z is about
\* to be handled
C18_Witness ==
  /\ Deliverable("TSTP") /\ LiveFg = {}
  /\ \E i \in Live(job_list) : job_list[i].state = ST /\ proc[job_list[i].pid] = "stop"

\* C19: fg on a job running in the background moves it to the foreground
\* (BG -> FG) and then waits for it: from its state test eval goes on to the
\* continue signal, the write of FG and the wait loop.
C19_FgForegroundsBackground ==
  [][(/\ Control /\ pc = "fg_check" /\ pc' # pc
      /\ stjob # NULL /\ stjob \in Live(job_list)
      /\ job_list[stjob].state = BG)
       => pc' = "fg_kill"]_vars

\* C20: every slot with pid 0 has jid 0 and state UNDEF, also when the
\* reaper removes the job bg or fg is working on; so fgpid is 0 only when no
\* live job is FG.
C20_EmptySlotsClean ==
  /\ \A i \in Slots : job_list[i].pid = 0
       => (job_list[i].jid = 0 /\ job_list[i].state = UNDEF)
  /\ fgpid(job_list) = 0 => LiveFg = {}

C22_StoppedRecordedStopped ==
  (/\ shell = "running"
   /\ "CHLD" \notin pending /\ ~Handling("CHLD")
   /\ pc \notin {"bg_check", "bg_kill", "bg_set", "fg_check", "fg_kill", "fg_set"}
   /\ ~(pc = "fgwait" /\ stjob # NULL))
    => \A i \in Live(job_list) :
         proc[job_list[i].pid] \in {"stopU", "stop"} => job_list[i].state = ST
====
